---- MODULE Spec2Model ----
(***************************************************************************)
(* Correlation measurement of the XYZ pf-FRG solver                        *)
(* (src/src/XYZ/XYZMeasurementCorrelation.cpp).                            *)
(*                                                                         *)
(* Numbers.  Frequencies and cutoffs are integers (grid points are the     *)
(* integers FreqFirst..FreqLast); an integral over [a,b] is the sum of the *)
(* integrand over the unit cells a..b-1.  A correlation value is a pair    *)
(* <<loc, vtx>> standing for loc/(4 pi) + vtx/(8 pi^2), so that the        *)
(* weights of the source (1/(4 pi), 1/pi, 0.5, 2, 1/(4 pi^2)) are integers.*)
(* The propagator factor 1/(w + Sigma(w)) is the integer Prop(w).          *)
(***************************************************************************)
EXTENDS Integers, Sequences, FiniteSets, TLC

\* ---------------------------------------------------------------- bounds
MaxCutoff  == 3      \* cutoffs the flow driver visits are 1..MaxCutoff
MaxWorkers == 2      \* worker processes
MaxCalls   == 3      \* takeMeasurement rounds of one run
MaxIntegrand == 2    \* a synthetic integrand takes the values 0..MaxIntegrand

\* ------------------------------------------------------- program constants
InitialCutoff == -1  \* _currentCutoff = -1.0f
Nu            == 0   \* float nu = 0.0f

\* SpinComponent, in the order of the four buffers
X == 0
Y == 1
Z == 2
D == 3
Chan == {X, Y, Z, D}

GroupNames == <<"XYZCorXX", "XYZCorYY", "XYZCorZZ", "XYZCorDD">>
Groups     == {GroupNames[i] : i \in 1..4}

\* ------------------------------------------------------------- geometry
\* The lattice and the frequency grid are those of the scenario of the
\* specification: 1 basis site, 4 representative neighbours, grid [-2..2].
NumBasis   == 1      \* FrgCommon::lattice()._basis.size()
RangeCount == 4      \* sites of FrgCommon::lattice().getRange(0)
FreqMax    == 2      \* the frequency grid is -FreqMax..FreqMax

\* latticeSizeBasis * latticeSizeExtended: length of each flat buffer and
\* the element count declared for the implicit stack
LatticeN == NumBasis * RangeCount
Offsets  == 0 .. (LatticeN - 1)

\* _memoryStepLattice
MemoryStepLattice == NumBasis * RangeCount

\* FrgCommon::lattice().size: number of symmetry-inequivalent sites
LatticeSize == (RangeCount \div 2) + 1
Rids        == 0 .. (LatticeSize - 1)

\* the k-th pair of the nested loop (basis outer, range inner)
PairOf(k) == [i |-> k \div RangeCount, j |-> k % RangeCount]

\* Symmetry map: range site j sits at distance (j+1) div 2 from its basis
\* site (sites 1,2 are mirror images, 3,4 too, ...); the representative
\* index is that distance, for every basis site and every channel.
SymmetryTransform(i, j, component) ==
    [rid |-> (j + 1) \div 2, component |-> component, sign |-> 1]

\* --------------------------------------------------------- solver state
\* mock vertex functions of the flowing functional
VertexStates == [sigma : 0..1, bundle : 0..1, point : 0..1]

Abs(n) == IF n < 0 THEN -n ELSE n

\* 1 / (w + v2->getValue(w))
Prop(v, w) == 1 + v.sigma * (Abs(w) % 2)

\* v4->getValueSuperbundle(ab0, stackBuffer), entry [c][r]
BundleVal(v, c, r, w, wp) == v.bundle * (1 + r + c)

\* v4->getValue(zero, zero, ..., c, None)
PointVal(v, c, w, wp) == v.point * (1 + c)

\* ------------------------------------------------------------ quadrature
FreqFirst == -FreqMax     \* *FrgCommon::frequency().beginNegative()
FreqLast  == FreqMax      \* *FrgCommon::frequency().last()
Cells     == FreqFirst .. (FreqLast - 1)

RECURSIVE SumOver(_, _)
SumOver(S, f) ==
    IF S = {} THEN 0
    ELSE LET k == CHOOSE x \in S : TRUE IN f[k] + SumOver(S \ {k}, f)

\* ImplicitIntegrator::integrateWith...Boundary(a, b, kernel, ...): the
\* integral of kernel over [a, b]
Integrate(a, b, f) == SumOver({k \in DOMAIN f : a <= k /\ k < b}, f)

\* the three-way split of the inner integral over wp: the sub-intervals
\* integrated, in the order of the code
SubIntervalsInnerNoLeft(cut) ==
    (IF Nu - cut > cut THEN <<[a |-> -Nu + cut, b |-> -cut]>> ELSE <<>>)
    \o (IF cut < FreqLast THEN <<[a |-> cut, b |-> FreqLast]>> ELSE <<>>)
SubIntervalsInner(cut) ==
    (IF -(Nu + cut) > FreqFirst THEN <<[a |-> FreqFirst, b |-> -cut - Nu]>> ELSE <<>>)
    \o (IF Nu - cut > cut THEN <<[a |-> -Nu + cut, b |-> -cut]>> ELSE <<>>)
    \o (IF cut < FreqLast THEN <<[a |-> cut, b |-> FreqLast]>> ELSE <<>>)

\* the three-way split of the outer integral over w
SubIntervalsOuter(cut) ==
    (IF -(Nu + cut) > FreqFirst THEN <<[a |-> FreqFirst, b |-> -cut - Nu]>> ELSE <<>>)
    \o (IF Nu - cut > cut THEN <<[a |-> -Nu + cut, b |-> -cut]>> ELSE <<>>)
    \o (IF cut < FreqLast THEN <<[a |-> cut, b |-> FreqLast]>> ELSE <<>>)

RECURSIVE SumSeq(_)
SumSeq(s) == IF s = <<>> THEN 0 ELSE Head(s) + SumSeq(Tail(s))

\* the integrals of f over the sub-intervals iv, and their sum (buffer4
\* resp. buffer2 added up into returnBuffer resp. susceptibility)
SplitParts(iv, f) == [n \in 1..Len(iv) |-> Integrate(iv[n].a, iv[n].b, f)]
SplitIntegral(iv, f) == SumSeq(SplitParts(iv, f))

\* ---------------------------------------------------------------- kernel
LocalWeight(c)  == IF c = D THEN 4 ELSE 1     \* 1/(4 pi) resp. 1/pi
BundleWeight(c) == IF c = D THEN 4 ELSE 1     \* multSub(1.0f | 4.0f, ...)

\* egg diagram, in units of 1/2
Egg(v, c, w, wp) ==
    LET vx == PointVal(v, X, w, wp)
        vy == PointVal(v, Y, w, wp)
        vz == PointVal(v, Z, w, wp)
        vd == PointVal(v, D, w, wp)
    IN CASE c = X -> vx - vy - vz + vd
         [] c = Y -> -vx + vy - vz + vd
         [] c = Z -> -vx - vy + vz + vd
         [] c = D -> 4 * (vx + vy + vz + vd)

\* innerKernel(wp, ret), entry [c][r], in units of 1/(8 pi^2)
InnerKernelEggEverywhere(v, c, r, w, wp) ==
    ( (0 - 2 * BundleWeight(c) * BundleVal(v, c, r, w, wp)) + Egg(v, c, w, wp) )
    * (Prop(v, w) * Prop(v, w + Nu) * Prop(v, wp) * Prop(v, wp + Nu))
InnerKernel(v, c, r, w, wp) ==
    ( (0 - 2 * BundleWeight(c) * BundleVal(v, c, r, w, wp))
      + (IF r = 0 THEN Egg(v, c, w, wp) ELSE 0) )
    * (Prop(v, w) * Prop(v, w + Nu) * Prop(v, wp) * Prop(v, wp + Nu))

\* integralKernel(w, returnBuffer), entry [c][r]: term1, in units of
\* 1/(4 pi), and term2, the inner integral
IntegralKernelLocal(v, c, r, w) ==
    IF r = 0 THEN LocalWeight(c) * Prop(v, w) * Prop(v, w + Nu) ELSE 0

IntegralKernelVertex(v, cut, c, r, w) ==
    SplitIntegral(SubIntervalsInner(cut), [wp \in Cells |-> InnerKernel(v, c, r, w, wp)])

\* returnBuffer after integralKernel(w, returnBuffer)
KernelBundle(v, cut, w) ==
    [c \in Chan |-> [r \in Rids |->
        <<IntegralKernelLocal(v, c, r, w), IntegralKernelVertex(v, cut, c, r, w)>>]]

\* the susceptibility superbundle after the outer integration
Susceptibility(v, cut) ==
    [c \in Chan |-> [r \in Rids |->
        <<SplitIntegral(SubIntervalsOuter(cut), [w \in Cells |-> IntegralKernelLocal(v, c, r, w)]),
          SplitIntegral(SubIntervalsOuter(cut), [w \in Cells |-> IntegralKernelVertex(v, cut, c, r, w)])>>]]

\* ---------------------------------------------------- correlation callback
\* value the nested loop stores for channel c at its k-th pair
LoopValue(sus, c, k) ==
    LET t == SymmetryTransform(PairOf(k).i, PairOf(k).j, c)
    IN sus[t.component][t.rid]

\* What an out-of-bounds store of the callback does is undefined; the
\* outcomes kept are: the store hits unused heap ("untouched"), the four
\* buffers lie back to back so that it lands in a following buffer
\* ("neighbour"), or the process dies ("crash").
HeapLayouts == {"untouched", "neighbour", "crash"}

\* offsets written by _calculateCorrelation(it)
WrittenOffsets(it) == {it * MemoryStepLattice + k : k \in Offsets}

WritesOutOfBounds(it) == \E o \in WrittenOffsets(it) : o \notin Offsets

\* heap cell (buffer, offset) hit by the store to buffer c at offset off
Landing(c, off, u) ==
    IF off \in Offsets THEN <<c, off>>
    ELSE IF u = "neighbour" /\ (c * LatticeN + off) \div LatticeN \in Chan
         THEN <<(c * LatticeN + off) \div LatticeN, (c * LatticeN + off) % LatticeN>>
         ELSE <<-1, -1>>

\* the four buffers of one worker after _calculateCorrelation(it), sus being
\* the susceptibility the call has integrated
CalculateCorrelation(bufs, sus, it, u) ==
    LET hits(c1, o1) == {ck \in Chan \X Offsets :
                           Landing(ck[1], it * MemoryStepLattice + ck[2], u) = <<c1, o1>>}
    IN [c1 \in Chan |-> [o1 \in Offsets |->
          IF hits(c1, o1) = {} THEN bufs[c1][o1]
          ELSE LET ck == CHOOSE x \in hits(c1, o1) : TRUE
               IN LoopValue(sus, ck[1], ck[2])]]

\* the callback run for every index of a set, in ascending order
RECURSIVE CalculateOwned(_, _, _, _)
CalculateOwned(bufs, sus, its, u) ==
    IF its = {} THEN bufs
    ELSE LET it == CHOOSE x \in its : \A y \in its : x <= y
         IN CalculateOwned(CalculateCorrelation(bufs, sus, it, u), sus, its \ {it}, u)

\* ----------------------------------------------------------- result store
Geometry == [latticeVectors |-> 3, basis |-> NumBasis, sites |-> LatticeN]

NoGroup == [exists |-> FALSE, meta |-> <<>>, data |-> FALSE, snaps |-> <<>>]

EmptyDisk == [exists |-> FALSE, groups |-> [g \in Groups |-> NoGroup]]

\* the state a write threads through: the file, the log, open handles and a
\* record of what happened per group (events: "meta"/"snap" in creation
\* order; writes: the cutoff of every write attempted)
\* fault: the H5 open or create call of the write to a group that is about to
\* fail; named: the path the message of the raised IOError carries; failed:
\* the call that made it fail
NoFault == [op |-> "none", group |-> "none"]

FaultOps == {"file", "group", "headerFile", "headerGroup", "data"}

EmptyEnv(d) ==
    [disk |-> d,
     warnings |-> [g \in Groups |-> 0],
     headerWarnings |-> 0,
     handles |-> 0,
     error |-> "none",
     fault |-> NoFault,
     named |-> <<>>,
     failed |-> NoFault,
     events |-> [g \in Groups |-> <<>>],
     writes |-> [g \in Groups |-> <<>>]]

\* H5Lexists(group, "meta", H5P_DEFAULT) == 0
MetaMissingNever(grp) == FALSE
MetaMissing(grp) == grp.meta = <<>>

\* the loop over the entries of the data collection: some entry's cutoff
\* attribute equals the cached cutoff
IsDuplicateLastOnly(snaps, cc) == snaps # <<>> /\ snaps[Len(snaps)].cutoff = cc
IsDuplicateNever(snaps, cc) == FALSE
IsDuplicate(snaps, cc) == \E n \in 1..Len(snaps) : snaps[n].cutoff = cc

\* datasetId after the loop: the number of groups in the data collection;
\* the new entry is named "measurement_" + datasetId
DatasetIdUncounted(snaps) == 0
DatasetId(snaps) == Len(snaps)

\* the duplicate branch: one warning, return
DiscardSilently(e, g) == e
DiscardDuplicate(e, g) == [e EXCEPT !.warnings[g] = @ + 1]

\* the handle an H5 open or create call returns is negative
Fails(env, op, g) == env.fault = [op |-> op, group |-> g]

\* the path in the message of the exception: outfile(), observableGroup or
\* observableGroup + "/data"
Outfile == "outfile"
ErrorNamesOutfile(op, g) == <<Outfile>>
ErrorNames(op, g) ==
    IF op \in {"file", "headerFile"} THEN <<Outfile>>
    ELSE IF op = "data" THEN <<g, "data">>
    ELSE <<g>>

\* throw Exception(Exception::Type::IOError, message)
Throw(env, message, op, g) ==
    [env EXCEPT !.error = message,
                !.named = ErrorNames(op, g),
                !.failed = [op |-> op, group |-> g],
                !.fault = NoFault]

\* _writeOutfileHeader(observableGroup)
WriteOutfileHeader(env, g) ==
    IF ~env.disk.exists \/ Fails(env, "headerFile", g)
    THEN Throw(env, "Could not open observable file", "headerFile", g)
    ELSE IF ~env.disk.groups[g].exists \/ Fails(env, "headerGroup", g)
    THEN Throw([env EXCEPT !.handles = @ + 1], "Could not open obsfile group",
               "headerGroup", g)
    ELSE IF MetaMissing(env.disk.groups[g])
    THEN [env EXCEPT !.disk.groups[g].meta = <<Geometry>>,
                     !.events[g] = Append(@, "meta")]
    ELSE [env EXCEPT !.headerWarnings = @ + 1]

\* _writeOutfileCorrelation(observableGroup, correlation), writing at the
\* cached cutoff cc
WriteOutfileCorrelation(env, g, correlation, cc) ==
    LET e0 == [env EXCEPT !.writes[g] = Append(@, cc)]
        \* open or create file
        eF == [e0 EXCEPT !.disk.exists = TRUE, !.handles = @ + 1]
        \* open or create group
        e1 == [eF EXCEPT !.disk.groups[g].exists = TRUE, !.handles = @ + 1]
        \* ensure that meta information is included
        e2 == IF MetaMissing(e1.disk.groups[g]) THEN WriteOutfileHeader(e1, g) ELSE e1
        \* open or create data collection
        e3 == [e2 EXCEPT !.disk.groups[g].data = TRUE, !.handles = @ + 1]
        snaps == e3.disk.groups[g].snaps
        datasetId == DatasetId(snaps)
    IN IF env.error # "none" THEN env
       ELSE IF Fails(e0, "file", g)
       THEN Throw(e0, "Could not open observable file", "file", g)
       ELSE IF Fails(eF, "group", g)
       THEN Throw(eF, "Could not open obsfile group", "group", g)
       ELSE IF e2.error # "none" THEN e2
       ELSE IF Fails(e2, "data", g)
       THEN Throw(e2, "Could not open obsfile group", "data", g)
       ELSE IF IsDuplicate(snaps, cc)
       THEN DiscardDuplicate(e3, g)
       ELSE [e3 EXCEPT !.disk.groups[g].snaps =
                           Append(@, [name |-> datasetId, cutoff |-> cc, data |-> correlation]),
                       !.events[g] = Append(@, "snap"),
                       !.handles = @ - 3]

\* the four writes of the master task
RECURSIVE WriteAllButLast(_, _, _, _)
WriteAllButLast(env, bufs, cc, n) ==
    IF n > 3 THEN env
    ELSE WriteAllButLast(WriteOutfileCorrelation(env, GroupNames[n], bufs[n - 1], cc), bufs, cc, n + 1)
RECURSIVE WriteAll(_, _, _, _)
WriteAll(env, bufs, cc, n) ==
    IF n > 4 THEN env
    ELSE WriteAll(WriteOutfileCorrelation(env, GroupNames[n], bufs[n - 1], cc), bufs, cc, n + 1)

\* ------------------------------------------------------------ the program
VARIABLES
    flowCutoff,     \* flowingFunctional()->cutoff of the flow driver
    numWorkers,     \* worker processes of the run
    owner,          \* owner[it]: worker the dispatcher assigns index it to
    pc,             \* pc[w]: where worker w is inside takeMeasurement
    currentCutoff,  \* _currentCutoff of worker w's measurement object
    corr,           \* corr[w][c][o]: the four flat buffers of worker w
    heap,           \* what an out-of-bounds store does in this build
    aborted,        \* a worker process died
    env,            \* observable file, log, open handles, write record
    calls,          \* state.cutoff of every takeMeasurement round so far
    calcCount,      \* completed LoadManager::calculate invocations
    kernelCalls,    \* invocations of _calculateCorrelation
    writers,        \* workers that have written to the observable file
    quad            \* a three-way split integration of a given integrand

vars == <<flowCutoff, numWorkers, owner, pc, currentCutoff, corr, heap, aborted,
          env, calls, calcCount, kernelCalls, writers, quad>>

Cutoffs    == 1 .. MaxCutoff
Workers    == 1 .. numWorkers
MasterRank == 1

\* solver state (vertex functions) the flow has at cutoff c
VertexAt(c) ==
    [sigma  |-> c % 2,
     bundle |-> IF c <= 1 THEN 1 ELSE 0,
     point  |-> IF c >= 1 /\ c <= 2 THEN 1 ELSE 0]

\* contents of a buffer returned by new float[n]: indeterminate
GarbagePatterns == {"zero", "junk"}
Garbage(p, c, o) == IF p = "zero" THEN <<0, 0>> ELSE <<-1 - o, -1 - c>>

\* assignments of the indices 0..LatticeN-1 to nw workers by index ranges
Partitions(nw) ==
    {f \in [Offsets -> 1..nw] : \A a, b \in Offsets : a <= b => f[a] <= f[b]}

Init ==
    /\ flowCutoff = MaxCutoff
    /\ numWorkers \in 1..MaxWorkers
    /\ owner \in Partitions(numWorkers)
    /\ pc = [w \in 1..numWorkers |-> "idle"]
    /\ currentCutoff = [w \in 1..numWorkers |-> InitialCutoff]
    /\ \E p \in GarbagePatterns :
          corr = [w \in 1..numWorkers |-> [c \in Chan |-> [o \in Offsets |-> Garbage(p, c, o)]]]
    /\ heap \in HeapLayouts
    /\ aborted = FALSE
    /\ \E ex \in BOOLEAN : env = EmptyEnv([EmptyDisk EXCEPT !.exists = ex])
    /\ calls = <<>>
    /\ calcCount = 0
    /\ kernelCalls = 0
    /\ writers = {}
    /\ quad = [phase |-> "off"]

\* if (_currentCutoff != state.cutoff)
NeedsCalculateAlways(cached, stateCutoff) == TRUE
NeedsCalculate(cached, stateCutoff) == cached # stateCutoff

\* if (isMasterTask)
WritesAlways(isMasterTask) == TRUE
Writes(isMasterTask) == isMasterTask

StateCutoff == calls[Len(calls)]

\* the flow driver advances the flow to another cutoff
FlowStep(c) ==
    /\ ~aborted
    /\ \A w \in Workers : pc[w] = "idle"
    /\ c # flowCutoff
    /\ flowCutoff' = c
    /\ UNCHANGED <<numWorkers, owner, pc, currentCutoff, corr, heap, aborted, env,
                   calls, calcCount, kernelCalls, writers, quad>>

\* the flow driver calls takeMeasurement(flowing functional, rank = master)
\* on every worker
StartMeasurement ==
    /\ ~aborted
    /\ env.error = "none"
    /\ \A w \in Workers : pc[w] = "idle"
    /\ Len(calls) < MaxCalls
    /\ calls' = Append(calls, flowCutoff)
    /\ pc' = [w \in Workers |-> "called"]
    /\ UNCHANGED <<flowCutoff, numWorkers, owner, currentCutoff, corr, heap, aborted,
                   env, calcCount, kernelCalls, writers, quad>>

\* rest of takeMeasurement after the cache test or after calculate returned
WritePart(w) ==
    IF Writes(w = MasterRank)
    THEN /\ env' = WriteAll(env, corr[w], currentCutoff[w], 1)
         /\ writers' = writers \cup {w}
    ELSE UNCHANGED <<env, writers>>

\* takeMeasurement, cache hit: the whole call
TakeMeasurementCached(w) ==
    /\ ~aborted
    /\ pc[w] = "called"
    /\ ~NeedsCalculate(currentCutoff[w], StateCutoff)
    /\ WritePart(w)
    /\ pc' = [pc EXCEPT ![w] = "idle"]
    /\ UNCHANGED <<flowCutoff, numWorkers, owner, currentCutoff, corr, heap, aborted,
                   calls, calcCount, kernelCalls, quad>>

\* takeMeasurement, cache miss: calculate runs the callback on the indices
\* the worker owns, then waits for the exchange
TakeMeasurementCalculate(w) ==
    /\ ~aborted
    /\ pc[w] = "called"
    /\ NeedsCalculate(currentCutoff[w], StateCutoff)
    /\ LET owned == {it \in Offsets : owner[it] = w}
           oob   == \E it \in owned : WritesOutOfBounds(it)
           sus   == Susceptibility(VertexAt(flowCutoff), flowCutoff)
       IN IF oob /\ heap = "crash"
          THEN /\ aborted' = TRUE
               /\ UNCHANGED <<pc, corr, kernelCalls>>
          ELSE /\ corr' = [corr EXCEPT ![w] = CalculateOwned(@, sus, owned, heap)]
               /\ kernelCalls' = kernelCalls + Cardinality(owned)
               /\ pc' = [pc EXCEPT ![w] = "barrier"]
               /\ UNCHANGED aborted
    /\ UNCHANGED <<flowCutoff, numWorkers, owner, currentCutoff, heap, env, calls,
                   calcCount, writers, quad>>

\* the collective exchange that ends calculate: every worker receives each
\* entry from the worker that owns it, and the explicit stack (the cutoff)
Exchange ==
    /\ ~aborted
    /\ \A w \in Workers : pc[w] = "barrier"
    /\ corr' = [w \in Workers |-> [c \in Chan |-> [o \in Offsets |-> corr[owner[o]][c][o]]]]
    /\ currentCutoff' = [w \in Workers |-> flowCutoff]
    /\ calcCount' = calcCount + 1
    /\ pc' = [w \in Workers |-> "computed"]
    /\ UNCHANGED <<flowCutoff, numWorkers, owner, heap, aborted, env, calls,
                   kernelCalls, writers, quad>>

\* takeMeasurement after calculate returned
TakeMeasurementFinish(w) ==
    /\ ~aborted
    /\ pc[w] = "computed"
    /\ WritePart(w)
    /\ pc' = [pc EXCEPT ![w] = "idle"]
    /\ UNCHANGED <<flowCutoff, numWorkers, owner, currentCutoff, corr, heap, aborted,
                   calls, calcCount, kernelCalls, quad>>

Next ==
    \/ \E c \in Cutoffs : FlowStep(c)
    \/ StartMeasurement
    \/ \E w \in Workers : TakeMeasurementCached(w)
    \/ \E w \in Workers : TakeMeasurementCalculate(w)
    \/ Exchange
    \/ \E w \in Workers : TakeMeasurementFinish(w)

Spec == Init /\ [][Next]_vars

\* ------------------------------------------- the split as a pure function
\* The three-way split applied to a given integrand at a given cutoff: the
\* inputs are drawn at the start, one step integrates.
QuadCutoffs == 0 .. MaxCutoff
QuadValues  == 0 .. MaxIntegrand

InitSplit ==
    /\ flowCutoff = MaxCutoff
    /\ numWorkers = 1
    /\ owner = [o \in Offsets |-> 1]
    /\ pc = [w \in 1..1 |-> "idle"]
    /\ currentCutoff = [w \in 1..1 |-> InitialCutoff]
    /\ corr = [w \in 1..1 |-> [c \in Chan |-> [o \in Offsets |-> Garbage("zero", c, o)]]]
    /\ heap = "untouched"
    /\ aborted = FALSE
    /\ env = EmptyEnv(EmptyDisk)
    /\ calls = <<>>
    /\ calcCount = 0
    /\ kernelCalls = 0
    /\ writers = {}
    /\ \E cut \in QuadCutoffs, f \in [Cells -> QuadValues], which \in {"outer", "inner"} :
          quad = [phase |-> "input", which |-> which, cut |-> cut, f |-> f]

SplitStep(which, iv) ==
    /\ quad.phase = "input"
    /\ quad.which = which
    /\ quad' = [phase |-> "done", which |-> which, cut |-> quad.cut, f |-> quad.f,
                intervals |-> iv,
                parts |-> SplitParts(iv, quad.f),
                sum |-> SplitIntegral(iv, quad.f)]
    /\ UNCHANGED <<flowCutoff, numWorkers, owner, pc, currentCutoff, corr, heap,
                   aborted, env, calls, calcCount, kernelCalls, writers>>

\* the outer integration of _calculateCorrelation
IntegrateOuter == SplitStep("outer", SubIntervalsOuter(quad.cut))

\* the inner integration of integralKernel
IntegrateInner == SplitStep("inner", SubIntervalsInner(quad.cut))

NextSplit == IntegrateOuter \/ IntegrateInner

SpecSplit == InitSplit /\ [][NextSplit]_vars

\* ------------------------------------------- the program on a failing store
\* one worker; between two measurements the environment may arrange for one
\* open or create call of the next write to a group to fail
InitIO ==
    /\ flowCutoff = MaxCutoff
    /\ numWorkers = 1
    /\ owner = [o \in Offsets |-> 1]
    /\ pc = [w \in 1..1 |-> "idle"]
    /\ currentCutoff = [w \in 1..1 |-> InitialCutoff]
    /\ corr = [w \in 1..1 |-> [c \in Chan |-> [o \in Offsets |-> Garbage("zero", c, o)]]]
    /\ heap = "untouched"
    /\ aborted = FALSE
    /\ \E ex \in BOOLEAN : env = EmptyEnv([EmptyDisk EXCEPT !.exists = ex])
    /\ calls = <<>>
    /\ calcCount = 0
    /\ kernelCalls = 0
    /\ writers = {}
    /\ quad = [phase |-> "off"]

InjectFault(op, g) ==
    /\ ~aborted
    /\ \A w \in Workers : pc[w] = "idle"
    /\ env.error = "none"
    /\ env.fault = NoFault
    /\ env' = [env EXCEPT !.fault = [op |-> op, group |-> g]]
    /\ UNCHANGED <<flowCutoff, numWorkers, owner, pc, currentCutoff, corr, heap,
                   aborted, calls, calcCount, kernelCalls, writers, quad>>

NextIO ==
    \/ Next
    \/ \E op \in FaultOps, g \in Groups : InjectFault(op, g)

SpecIO == InitIO /\ [][NextIO]_vars

\* ------------------------------------ one kernel evaluation, as a function
\* integralKernel evaluated once for given vertex functions, cutoff and
\* frequency w.
InitKernel ==
    /\ flowCutoff = MaxCutoff
    /\ numWorkers = 1
    /\ owner = [o \in Offsets |-> 1]
    /\ pc = [w \in 1..1 |-> "idle"]
    /\ currentCutoff = [w \in 1..1 |-> InitialCutoff]
    /\ corr = [w \in 1..1 |-> [c \in Chan |-> [o \in Offsets |-> Garbage("zero", c, o)]]]
    /\ heap = "untouched"
    /\ aborted = FALSE
    /\ env = EmptyEnv(EmptyDisk)
    /\ calls = <<>>
    /\ calcCount = 0
    /\ kernelCalls = 0
    /\ writers = {}
    /\ \E v \in VertexStates, cut \in QuadCutoffs, w \in Cells :
          quad = [phase |-> "input", which |-> "kernel", v |-> v, cut |-> cut, w |-> w]

EvaluateKernel ==
    /\ quad.phase = "input"
    /\ quad.which = "kernel"
    /\ quad' = [phase |-> "done", which |-> "kernel", v |-> quad.v, cut |-> quad.cut,
                w |-> quad.w, bundle |-> KernelBundle(quad.v, quad.cut, quad.w)]
    /\ UNCHANGED <<flowCutoff, numWorkers, owner, pc, currentCutoff, corr, heap,
                   aborted, env, calls, calcCount, kernelCalls, writers>>

SpecKernel == InitKernel /\ [][EvaluateKernel]_vars

\* ================================================================ claims
Snaps(g)  == env.disk.groups[g].snaps
WriteLog(g)  == env.writes[g]
Range(q)  == {q[n] : n \in 1..Len(q)}
IsPrefix(p, q) == Len(p) <= Len(q) /\ \A n \in 1..Len(p) : p[n] = q[n]

\* some worker is inside a call whose state.cutoff is that of the call before
RepeatedCall ==
    /\ Len(calls) >= 2
    /\ calls[Len(calls)] = calls[Len(calls) - 1]
    /\ \E w \in Workers : pc[w] = "called"

\* C1: a takeMeasurement call whose cutoff equals that of the preceding call
\* never enters calculate (no calculate, no _calculateCorrelation call, no
\* worker leaves for the barrier) and adds no snapshot to any group.
C1_Memoization ==
    [][RepeatedCall =>
         /\ calcCount' = calcCount
         /\ kernelCalls' = kernelCalls
         /\ aborted' = aborted
         /\ \A w \in Workers : pc'[w] \in {pc[w], "idle"}
         /\ \A g \in Groups : env'.disk.groups[g].snaps = env.disk.groups[g].snaps]_vars

\* the master has completed a second call at the cutoff of the first
C1_Witness ==
    /\ Len(calls) = 2 /\ calls[1] = calls[2]
    /\ \A w \in Workers : pc[w] = "idle"
    /\ calcCount = 1
    /\ env.warnings["XYZCorXX"] = 1

\* C2: within each observable group no two snapshots carry the same cutoff.
C2_UniqueCutoff ==
    \A g \in Groups : \A m, n \in 1..Len(Snaps(g)) :
        m # n => Snaps(g)[m].cutoff # Snaps(g)[n].cutoff

\* a group holds two snapshots and a write at a cutoff already present, not
\* the cutoff of the newest snapshot, was attempted
C2_Witness ==
    \E g \in Groups :
        /\ Len(Snaps(g)) = 2
        /\ Len(WriteLog(g)) = 3
        /\ WriteLog(g)[3] = WriteLog(g)[1]
        /\ WriteLog(g)[2] # WriteLog(g)[1]

\* C3: after any sequence of writes into a group the snapshots are exactly
\* one per distinct cutoff of the sequence, and the log holds exactly one
\* warning per write whose cutoff was already present (and no other warning).
C3_Deduplication ==
    /\ env.headerWarnings = 0
    /\ \A g \in Groups :
        /\ {Snaps(g)[n].cutoff : n \in 1..Len(Snaps(g))} = Range(WriteLog(g))
        /\ Len(Snaps(g)) = Cardinality(Range(WriteLog(g)))
        /\ env.warnings[g] = Len(WriteLog(g)) - Cardinality(Range(WriteLog(g)))

\* writes at a, a, b left two snapshots (a, b) and one warning
C3_Witness ==
    \E g \in Groups :
        /\ Len(WriteLog(g)) = 3
        /\ WriteLog(g)[1] = WriteLog(g)[2]
        /\ WriteLog(g)[3] # WriteLog(g)[1]
        /\ Len(Snaps(g)) = 2
        /\ Snaps(g)[1].cutoff = WriteLog(g)[1]
        /\ Snaps(g)[2].cutoff = WriteLog(g)[3]
        /\ env.warnings[g] = 1

\* C4: no step changes, renames or removes a persisted snapshot, and a write
\* at a cutoff the group already holds leaves the whole group unchanged.
C4_SnapshotsImmutable ==
    [][\A g \in Groups :
         /\ IsPrefix(env.disk.groups[g].snaps, env'.disk.groups[g].snaps)
         /\ (/\ Len(env'.writes[g]) = Len(env.writes[g]) + 1
             /\ env'.writes[g][Len(env'.writes[g])] \in
                    {env.disk.groups[g].snaps[n].cutoff : n \in 1..Len(env.disk.groups[g].snaps)})
            => env'.disk.groups[g] = env.disk.groups[g]]_vars

\* a duplicate write was made into a group that holds two snapshots
C4_Witness ==
    \E g \in Groups : Len(Snaps(g)) = 2 /\ env.warnings[g] >= 1

\* C5: the first write into a group creates meta, before the first snapshot
\* entry; meta is created once and keeps the geometry written.
C5_MetaOnce ==
    \A g \in Groups :
        /\ WriteLog(g) = <<>> => env.disk.groups[g].meta = <<>> /\ Snaps(g) = <<>>
        /\ WriteLog(g) # <<>> =>
              /\ env.disk.groups[g].meta = <<Geometry>>
              /\ env.events[g][1] = "meta"
              /\ Cardinality({n \in 1..Len(env.events[g]) : env.events[g][n] = "meta"}) = 1
        /\ Snaps(g) # <<>> => env.disk.groups[g].meta # <<>>

\* two snapshots at different cutoffs in one group, one meta
C5_Witness ==
    \E g \in Groups :
        /\ Len(Snaps(g)) = 2
        /\ env.events[g] = <<"meta", "snap", "snap">>

\* the four buffers one worker that owns every index ends with
SingleWorkerResult(bufs, cut) ==
    CalculateOwned(bufs, Susceptibility(VertexAt(cut), cut), Offsets, heap)

\* C6: when calculate has returned, every worker holds the buffers a single
\* worker computes for the same solver state and cutoff, whatever the
\* partition and the worker count.
C6_PartitionIndependent ==
    \A w \in Workers :
        pc[w] = "computed" => corr[w] = SingleWorkerResult(corr[w], flowCutoff)

\* C7: after a recomputation, two site pairs the symmetry map sends to the
\* same representative index of a channel hold the same value in that
\* channel's flat buffer.
C7_SymmetryClosure ==
    \A w \in Workers : pc[w] = "computed" =>
        \A c \in Chan : \A k1, k2 \in Offsets :
            SymmetryTransform(PairOf(k1).i, PairOf(k1).j, c).rid
              = SymmetryTransform(PairOf(k2).i, PairOf(k2).j, c).rid
            => corr[w][c][k1] = corr[w][c][k2]

\* cells of the frequency domain the sub-intervals iv integrate
Covered(iv) == {k \in Cells : \E n \in 1..Len(iv) : iv[n].a <= k /\ k < iv[n].b}

StrictlyInside(cut) == FreqFirst < cut /\ cut < FreqLast

\* C8 as claimed: for a cutoff strictly inside the grid the sub-intervals
\* cover the whole domain and their integrals add up to the integral of the
\* integrand over the whole domain.
C8_SplitCoversDomain ==
    (quad.phase = "done" /\ StrictlyInside(quad.cut)) =>
        /\ Covered(quad.intervals) = Cells
        /\ quad.sum = SumOver(Cells, quad.f)

\* C8 amended: for a cutoff strictly inside the grid the sub-intervals cover
\* the domain except the interval (-cutoff, cutoff), each cell of the rest
\* once, and their integrals add up to the integral of the integrand over
\* the domain without that interval; the sum is the integral over the whole
\* domain when the cutoff is 0.
C8_SplitCoversOutsideCutoff ==
    (quad.phase = "done" /\ StrictlyInside(quad.cut)) =>
        LET gap  == {k \in Cells : -quad.cut <= k /\ k < quad.cut}
            rest == Cells \ gap
        IN /\ Len(quad.intervals) = 2
           /\ Covered(quad.intervals) = rest
           /\ quad.sum = SumOver(rest, [k \in Cells |-> quad.f[k]])
           /\ quad.cut = 0 => quad.sum = SumOver(Cells, quad.f)
           /\ \A k \in rest : Cardinality({n \in 1..Len(quad.intervals) :
                    quad.intervals[n].a <= k /\ k < quad.intervals[n].b}) = 1

\* an integrand that does not vanish between -cutoff and cutoff was
\* integrated by the inner split at a cutoff inside the grid
C8_Witness ==
    /\ quad.phase = "done"
    /\ quad.which = "inner"
    /\ quad.cut = 1
    /\ quad.f[0] = 1 /\ quad.f[-1] = 2
    /\ quad.sum = quad.f[-2] + quad.f[1]

\* C9: a step of a worker that is not the master task never changes the
\* observable file, and no worker but the master ever writes.
C9_OnlyMasterWrites ==
    /\ [](writers \subseteq {MasterRank})
    /\ [][\A w \in Workers :
            (w # MasterRank /\ pc'[w] # pc[w] /\ \A x \in Workers \ {w} : pc'[x] = pc[x])
            => env'.disk = env.disk]_vars

\* a worker that is not the master has completed a call with a changed and
\* a call with an unchanged cutoff, and the master has written
C9_Witness ==
    /\ numWorkers = 2
    /\ Len(calls) = 2 /\ calls[1] = calls[2]
    /\ pc[2] = "idle"
    /\ writers = {MasterRank}
    /\ Len(Snaps("XYZCorDD")) = 1

\* calls that are the first or whose cutoff differs from the call before
Changes(q) == Cardinality({n \in 1..Len(q) : n = 1 \/ q[n] # q[n - 1]})

\* no cutoff comes back after a different one
NoRecurrence(q) ==
    \A m, n \in 1..Len(q) : (m < n /\ q[m] = q[n]) => \A k \in m..n : q[k] = q[m]

\* C10 as claimed: the recomputations are at most the distinct cutoffs of
\* the calls.
C10_AtMostDistinctCutoffs == calcCount <= Cardinality(Range(calls))

\* C10 amended: the recomputations are at most the calls whose cutoff
\* differs from that of the call before (the first included), so at most
\* the distinct cutoffs when no cutoff comes back after a different one;
\* when all calls have returned they are exactly that many.
C10_AtMostChanges ==
    /\ calcCount <= Changes(calls)
    /\ NoRecurrence(calls) => calcCount <= Cardinality(Range(calls))
    /\ (\A w \in Workers : pc[w] = "idle") /\ ~aborted => calcCount = Changes(calls)

\* three calls, the second repeating the cutoff of the first: two
\* recomputations
C10_Witness ==
    /\ Len(calls) = 3
    /\ calls[1] = calls[2] /\ calls[3] # calls[2]
    /\ \A w \in Workers : pc[w] = "idle"
    /\ calcCount = 2

\* the flat buffer of channel c computed at cutoff cut
ExpectedBuffer(c, cut) ==
    [o \in Offsets |-> LoopValue(Susceptibility(VertexAt(cut), cut), c, o)]

\* the master is at the point of takeMeasurement where it reads the buffers
MasterReadsBuffers ==
    \/ pc[MasterRank] = "computed"
    \/ pc[MasterRank] = "called" /\ ~NeedsCalculate(currentCutoff[MasterRank], StateCutoff)

\* C11: when the master reads the buffers to persist them, the cached cutoff
\* is state.cutoff and the four buffers hold the values computed at that
\* cutoff; every persisted snapshot holds the data computed at its cutoff
\* attribute.
C11_BuffersValidAtWrite ==
    /\ MasterReadsBuffers =>
          /\ currentCutoff[MasterRank] = StateCutoff
          /\ \A c \in Chan : corr[MasterRank][c] = ExpectedBuffer(c, StateCutoff)
    /\ \A n \in 1..4 : \A k \in 1..Len(Snaps(GroupNames[n])) :
          Snaps(GroupNames[n])[k].data
            = ExpectedBuffer(n - 1, Snaps(GroupNames[n])[k].cutoff)

\* C12: the callback runs of a worker change only buffer entries of indices
\* the worker was given: the call for index it writes entry it of each
\* buffer and no other.
C12_WritesOwnEntryOnly ==
    [][\A w \in Workers :
         (pc[w] = "called" /\ pc'[w] = "barrier") =>
            \A c \in Chan : \A o \in Offsets :
                owner[o] # w => corr'[w][c][o] = corr[w][c][o]]_vars

\* C16: the snapshot entries of a group are named measurement_0 ...
\* measurement_(k-1) in write order, so no name is used twice.
C16_SequentialNames ==
    \A g \in Groups : \A n \in 1..Len(Snaps(g)) : Snaps(g)[n].name = n - 1

\* two snapshots with a discarded duplicate write between them
C16_Witness ==
    \E g \in Groups :
        /\ Len(WriteLog(g)) = 3
        /\ WriteLog(g)[2] = WriteLog(g)[1]
        /\ Len(Snaps(g)) = 2
        /\ Snaps(g)[2].name = 1
        /\ Snaps(g)[2].cutoff = WriteLog(g)[3]

\* C17: every store of a callback run for an index 0..N-1 is at an offset
\* 0..N-1 of the buffers.
C17_StoresInBounds ==
    \A w \in Workers : pc[w] = "barrier" =>
        \A it \in Offsets : owner[it] = w => WrittenOffsets(it) \subseteq Offsets

\* C18: the four observable groups hold the same snapshot names with the
\* same cutoffs.
C18_GroupsAgree ==
    \A g1, g2 \in Groups :
        [n \in 1..Len(Snaps(g1)) |-> <<Snaps(g1)[n].name, Snaps(g1)[n].cutoff>>]
          = [n \in 1..Len(Snaps(g2)) |-> <<Snaps(g2)[n].name, Snaps(g2)[n].cutoff>>]

\* the master has written two flow points and a duplicate into all groups
C18_Witness ==
    /\ \A g \in Groups : Len(Snaps(g)) = 2 /\ env.warnings[g] = 1
    /\ env.error = "none"

\* C19: between the calls of _writeOutfileCorrelation no store handle is
\* open.
C19_HandlesClosed == env.handles = 0

\* C15: in the bundle of one kernel evaluation every entry of a
\* representative index other than 0 has no local term, does not depend on
\* the pointwise vertex, is 0 when the batched bundle is 0 and holds the
\* batched bundle's contribution otherwise (when the inner integral is not
\* empty); index 0 holds the local term.
C15_CorrectionsAtZeroOnly ==
    quad.phase = "done" =>
        \A c \in Chan :
            /\ quad.bundle[c][0][1]
                 = LocalWeight(c) * Prop(quad.v, quad.w) * Prop(quad.v, quad.w + Nu)
            /\ \A r \in Rids \ {0} :
                /\ quad.bundle[c][r][1] = 0
                /\ quad.bundle[c][r]
                     = KernelBundle([quad.v EXCEPT !.point = 1 - @], quad.cut, quad.w)[c][r]
                /\ quad.v.bundle = 0 => quad.bundle[c][r] = <<0, 0>>
                /\ (quad.v.bundle = 1 /\ quad.cut < FreqLast) => quad.bundle[c][r][2] < 0

\* a kernel evaluation with zero batched bundle and non-zero pointwise
\* vertex: index 0 of the density channel holds the pointwise term, the
\* other indices are 0
C15_Witness ==
    /\ quad.phase = "done"
    /\ quad.v.bundle = 0 /\ quad.v.point = 1
    /\ quad.cut = 1
    /\ quad.bundle[D][0][2] > 0
    /\ \A r \in Rids \ {0} : quad.bundle[D][r] = <<0, 0>>

\* C14: a sub-interval whose breakpoint lies at or beyond the end of the
\* frequency grid is skipped and the others are still integrated; when every
\* sub-interval is skipped the computation completes and all four buffers of
\* a worker that has computed are zero.
C14_AllSkippedBuffersZero ==
    /\ \A cut \in QuadCutoffs :
          /\ cut >= FreqLast => SubIntervalsOuter(cut) = <<>>
          /\ cut < FreqLast => Len(SubIntervalsOuter(cut)) >= 2
    /\ \A w \in Workers :
          (pc[w] = "computed" /\ SubIntervalsOuter(currentCutoff[w]) = <<>>) =>
              \A c \in Chan, o \in Offsets : corr[w][c][o] = <<0, 0>>

\* C13: when an open or create call of a snapshot write fails, the write
\* raises an IOError whose message names the file path (file), the group
\* (group) or the group's data collection (data); the failing write adds no
\* snapshot to that group and no later group is attempted in that call.
C13_Raise ==
    (env.error = "none" /\ env'.error # "none") =>
        LET op == env'.failed.op
            g  == env'.failed.group
            n  == CHOOSE k \in 1..4 : GroupNames[k] = g
        IN /\ env.fault = [op |-> op, group |-> g]
           /\ env'.named = (IF op \in {"file", "headerFile"} THEN <<Outfile>>
                            ELSE IF op = "data" THEN <<g, "data">> ELSE <<g>>)
           /\ env'.disk.groups[g].snaps = env.disk.groups[g].snaps
           /\ Len(env'.writes[g]) = Len(env.writes[g]) + 1
           /\ \A k \in (n + 1)..4 : env'.writes[GroupNames[k]] = env.writes[GroupNames[k]]

C13_NotSwallowed ==
    (env.fault # NoFault /\ env'.fault = NoFault) => env'.error # "none"

C13_IOErrorNamesPath == [][C13_Raise /\ C13_NotSwallowed]_vars

\* the data collection of the second group could not be opened at the second
\* snapshot: the first group has two snapshots, the second still one
C13_Witness ==
    /\ env.error # "none"
    /\ env.failed = [op |-> "data", group |-> "XYZCorYY"]
    /\ env.named = <<"XYZCorYY", "data">>
    /\ Len(Snaps("XYZCorXX")) = 2
    /\ Len(Snaps("XYZCorYY")) = 1
    /\ Len(Snaps("XYZCorZZ")) = 1
====
